---- MODULE Spec2Model ----
(***************************************************************************)
(* Workspace lifecycle and batch-system dispatch of jobTreeRun.py.         *)
(*                                                                         *)
(* One job-tree path on disk, resolved by a sequence of runJobTreeScript   *)
(* processes (never two at once).  A process may be interrupted between    *)
(* any two of its steps; its in-memory state is then lost, the disk stays. *)
(*                                                                         *)
(* Representation of Python values:                                        *)
(*   - a string that the code splits on whitespace (batch_system) is a     *)
(*     sequence of atoms, the atom " " being a run of whitespace and any   *)
(*     other atom a maximal run of non-whitespace (no two are adjacent);   *)
(*   - every other string is a TLA+ string, numerals are built by Str;     *)
(*   - a float is a record [whole, tenth] (tenth is 0 or 5);               *)
(*   - None is the string "<None>", a missing attribute "<absent>".        *)
(***************************************************************************)
EXTENDS Integers, Sequences, FiniteSets, TLC

\* ---------------------------------------------------------------- bounds
MaxRuns == 2        \* resolves (processes) started on the path
MaxMemory == 2      \* largest memory request of a submission

\* ------------------------------------------------------------- constants
sys_maxint == 2147483647

None == "<None>"
Absent == "<absent>"
ValueError == -1    \* result of int()/float() on a non-numeral

\* ------------------------------------------------------ str / int / float
Digit(d) ==
    CASE d = 0 -> "0" [] d = 1 -> "1" [] d = 2 -> "2" [] d = 3 -> "3"
      [] d = 4 -> "4" [] d = 5 -> "5" [] d = 6 -> "6" [] d = 7 -> "7"
      [] d = 8 -> "8" [] d = 9 -> "9"

RECURSIVE StrInt(_)
\* str(n) for an int n >= 0
StrInt(n) == IF n < 10 THEN Digit(n) ELSE StrInt(n \div 10) \o Digit(n % 10)

\* the ints whose numerals occur in the inputs and the configuration
Numerals == (0 .. 40) \cup {100, 50120, sys_maxint}

\* int(s): the int that s is the numeral of, ValueError otherwise
int(s) ==
    IF \E n \in Numerals : StrInt(n) = s
    THEN CHOOSE n \in Numerals : StrInt(n) = s
    ELSE ValueError

\* float(n) of an int
floatOfInt(n) == [whole |-> n, tenth |-> 0]

FloatError == [whole |-> ValueError, tenth |-> 0]

\* str(x) of a float
StrFloat(x) == StrInt(x.whole) \o "." \o Digit(x.tenth)

\* float(s): accepts the int numerals and the numerals "n.0" and "n.5"
float(s) ==
    IF int(s) # ValueError THEN floatOfInt(int(s))
    ELSE IF \E n \in Numerals, t \in {0, 5} : StrFloat([whole |-> n, tenth |-> t]) = s
         THEN CHOOSE x \in [whole : Numerals, tenth : {0, 5}] : StrFloat(x) = s
         ELSE FloatError

\* x <= y on floats
FloatLeq(x, y) == x.whole < y.whole \/ (x.whole = y.whole /\ x.tenth <= y.tenth)

\* ------------------------------------------------------------ str.split()
RECURSIVE split(_)
\* the fields of a string: the atoms between runs of whitespace
split(s) ==
    IF s = <<>> THEN <<>>
    ELSE IF Head(s) = " " THEN split(Tail(s))
    ELSE <<Head(s)>> \o split(Tail(s))

\* os.path.abspath of a relative path
abspath(p) == "/cwd/" \o p

\* ------------------------------------------------- the batch-system handles
NoneHandle == [kind |-> "None"]

\* the if/elif chain comparing the names without regard to letter case
variantOfAnyCase(batchSystemString) ==
    CASE batchSystemString \in {<<"parasol">>, <<"Parasol">>} -> "Parasol"
      [] batchSystemString \in {<<"single_machine">>, <<"singleMachine">>,
                                <<"SingleMachine">>} -> "SingleMachine"
      [] batchSystemString \in {<<"gridengine">>, <<"gridEngine">>} -> "Gridengine"
      [] batchSystemString \in {<<"torque">>, <<"Torque">>} -> "Torque"
      [] batchSystemString \in {<<"drmaa">>, <<"Drmaa">>} -> "Drmaa"
      [] batchSystemString \in {<<"drmaaTorque">>, <<"DrmaaTorque">>} -> "DrmaaTorque"
      [] batchSystemString \in {<<"acid_test">>, <<"acidTest">>, <<"AcidTest">>} -> "AcidTest"
      [] OTHER -> "None"

\* the backend variant that batchSystemConstructionFn builds for a name,
\* "None" when no branch of its if/elif chain matches
variantOf(batchSystemString) ==
    CASE batchSystemString = <<"parasol">> -> "Parasol"
      [] batchSystemString \in {<<"single_machine">>, <<"singleMachine">>} -> "SingleMachine"
      [] batchSystemString \in {<<"gridengine">>, <<"gridEngine">>} -> "Gridengine"
      [] batchSystemString \in {<<"torque">>, <<"Torque">>} -> "Torque"
      [] batchSystemString \in {<<"drmaa">>, <<"Drmaa">>} -> "Drmaa"
      [] batchSystemString \in {<<"drmaaTorque">>, <<"DrmaaTorque">>} -> "DrmaaTorque"
      [] batchSystemString \in {<<"acid_test">>, <<"acidTest">>} -> "AcidTest"
      [] OTHER -> "None"

\* the handle a constructor returns; the acid test is a single-machine
\* backend with the fault-prone worker
handleOf(variant) ==
    IF variant = "AcidTest"
    THEN [kind |-> "SingleMachine", workerFn |-> "badWorker"]
    ELSE [kind |-> variant, workerFn |-> "default"]

\* batchSystemConstructionFn without line 155
batchSystemConstructionFnKeepTryCount(batchSystemString, cfg) ==
    LET variant == variantOf(batchSystemString) IN
    IF variant = "None"
    THEN {[raised |-> FALSE, batchSystem |-> NoneHandle, config |-> cfg]}
    ELSE {[raised |-> TRUE, batchSystem |-> NoneHandle, config |-> cfg],
          [raised |-> FALSE, batchSystem |-> handleOf(variant), config |-> cfg]}

\* batchSystemConstructionFn(batchSystemString) called with the shared
\* configuration in state cfg: the outcomes it can have.  A backend
\* constructor is foreign code and may raise (DrmaaBatchSystem is not even
\* defined when the drmaa import failed); a name no branch matches returns
\* None; the acid test sets try_count after its constructor returned.
batchSystemConstructionFn(batchSystemString, cfg) ==
    LET variant == variantOf(batchSystemString) IN
    IF variant = "None"
    THEN {[raised |-> FALSE, batchSystem |-> NoneHandle, config |-> cfg]}
    ELSE {[raised |-> TRUE, batchSystem |-> NoneHandle, config |-> cfg],
          [raised |-> FALSE, batchSystem |-> handleOf(variant),
           config |-> IF variant = "AcidTest"
                      THEN [cfg EXCEPT !.try_count = StrInt(32)]
                      ELSE cfg]}

\* the routing predicate with the boundary sent to the second backend
routeToFirstStrict(maxMemoryForBatchSystem1, command, memory, cpu) ==
    FloatLeq(memory, maxMemoryForBatchSystem1) /\ memory # maxMemoryForBatchSystem1

\* the routing predicate of line 177, closed over maxMemoryForBatchSystem1
routeToFirst(maxMemoryForBatchSystem1, command, memory, cpu) ==
    FloatLeq(memory, maxMemoryForBatchSystem1)

CombinedBatchSystem(batchSystem1, batchSystem2, maxMemoryForBatchSystem1) ==
    [kind |-> "Combined", batchSystem1 |-> batchSystem1,
     batchSystem2 |-> batchSystem2, maxMemory |-> maxMemoryForBatchSystem1]

\* batchSystem.getRescueJobFrequency(): the preferred rescue-poll interval
\* of a handle, in seconds
getRescueJobFrequency(batchSystem) ==
    CASE batchSystem.kind = "SingleMachine" -> floatOfInt(1)
      [] batchSystem.kind = "Combined" -> floatOfInt(2)
      [] OTHER -> floatOfInt(30)

\* ---------------------------------------------------------------- inputs
BatchSystemStrings ==
    { <<"singleMachine">>, <<"single_machine">>, <<"parasol">>, <<"drmaa">>,
      <<"acidTest">>, <<"acid_test">>, <<"Torque">>,
      <<"SingleMachine">>, <<"quantumCluster">>, <<>>, <<" ", "parasol">>,
      <<"singleMachine", " ", "parasol">>,
      <<"singleMachine", " ", "parasol", " ", "1">>,
      <<"drmaa", " ", "singleMachine", " ", "1", " ", "5">>,
      <<"parasol", " ", "singleMachine", " ", "1.5", " ", "5">>,
      <<"acidTest", " ", "singleMachine", " ", "1">>,
      <<"singleMachine", " ", "acid_test", " ", "1", " ", "5">>,
      <<"quantumCluster", " ", "singleMachine", " ", "1", " ", "5">>,
      <<"singleMachine", " ", "quantumCluster", " ", "1">>,
      <<"a", " ", "b", " ", "notanumber">>,
      <<"singleMachine", " ", "parasol", " ", "notanumber">>,
      <<"singleMachine", " ", "parasol", " ", "1", " ", "x">>,
      <<"singleMachine", " ", "parasol", " ", "1", " ", "1.5">>,
      <<"a", " ", "b", " ", "100", " ", "x", " ", "y">>,
      <<"singleMachine", " ", "parasol", " ", "1", " ", "5", " ", "y">> }

LogLevels == {"INFO", "DEBUG"}
Environs == {"env1", "env2"}

\* the options of one invocation, as the option parser hands them over
\* (strings); the fields not varied here hold their defaults of _addOptions
Options ==
    [ command : {None, "echo hi"},
      jobTree : {"jt"},
      batchSystem : BatchSystemStrings,
      parasolCommand : {"parasol"},
      retryCount : {"0", "2", "x"},
      rescueJobsFrequency : {None, "3.5"},
      maxJobDuration : {StrInt(sys_maxint)},
      jobTime : {"30"},
      maxLogFileSize : {"50120"},
      defaultMemory : {"4"},
      defaultCpu : {"1"},
      maxJobs : {StrInt(sys_maxint), "7"},
      maxThreads : {"4"},
      stats : {FALSE},
      logLevel : LogLevels ]

\* the options drawn for an invocation on a path that is a directory
ResumeOptions ==
    { o \in Options : /\ o.batchSystem \in {<<"parasol">>, <<"quantumCluster">>}
                      /\ o.retryCount = "2" }

NoOptions == [command |-> None]

\* ----------------------------------------------------------------- state
VARIABLES
    \* the disk
    pathKind,          \* options.jobTree is "none", a "file" or a "dir"
    jobFileDir,        \* the job-records directory exists
    configFile,        \* [state: "absent" | "truncated" | "complete", attrib]
    environmentFile,   \* [state: "absent" | "truncated" | "complete", environ]
    rootJob,           \* the job records written by createFirstJob
    \* the running process
    pc,                \* its position, "idle" when there is none
    mode,              \* "create" or "reload"
    options,
    logLevel,          \* getLogLevelString()
    environ,           \* os.environ
    config,            \* the configuration element
    batchSystem,       \* the handle
    locals,            \* the locals of loadTheBatchSystem
    err,               \* the exception that ended the process
    \* history
    runs,              \* processes started so far
    mainLoopCalls,     \* invocations of mainLoop so far
    jobWrites,         \* root job records written so far
    createdConfig,     \* the configuration createJobTree returned
    callConfig,        \* the configuration at the call of loadTheBatchSystem
    loadFailedInCreate, \* loadTheBatchSystem has raised in create mode
    lastRoute          \* the last submission routed by a hybrid handle

disk == <<pathKind, jobFileDir, configFile, environmentFile, rootJob>>
proc == <<pc, mode, options, logLevel, environ, config, batchSystem, locals, err>>
hist == <<runs, mainLoopCalls, jobWrites, createdConfig, callConfig, loadFailedInCreate, lastRoute>>
otherHist == <<runs, mainLoopCalls, jobWrites, createdConfig, callConfig, lastRoute>>
vars == <<disk, proc, hist>>

NoConfig == [none |-> TRUE]
NoFile == [state |-> "absent"]
NoLocals == [none |-> TRUE]
NoRoute == [none |-> TRUE]
NoJob == [none |-> TRUE]

\* a configuration as createJobTree writes it with the default options, the
\* content of the configuration file of a job tree found on disk at the start
foundConfig ==
    [ log_level |-> "INFO", job_tree |-> abspath("jt"),
      parasol_command |-> "parasol", try_count |-> "1",
      max_job_duration |-> StrFloat(floatOfInt(sys_maxint)),
      batch_system |-> <<"singleMachine">>, job_time |-> "30.0",
      max_log_file_size |-> "50120", default_memory |-> "4",
      default_cpu |-> "1", max_jobs |-> StrInt(sys_maxint),
      max_threads |-> "4", stats |-> Absent,
      rescue_jobs_frequency |-> "1.0" ]

\* The path does not exist, or is a file, or is a directory holding any
\* subset of the three artifacts of a job tree (a tree damaged or left
\* behind by an earlier run).
Init ==
    /\ pathKind \in {"none", "file", "dir"}
    /\ jobFileDir \in (IF pathKind = "dir" THEN BOOLEAN ELSE {FALSE})
    /\ configFile \in (IF pathKind = "dir"
                       THEN {NoFile, [state |-> "complete", attrib |-> foundConfig]}
                       ELSE {NoFile})
    /\ environmentFile \in (IF pathKind = "dir"
                            THEN {NoFile, [state |-> "complete", environ |-> "env0"]}
                            ELSE {NoFile})
    /\ rootJob = NoJob
    /\ pc = "idle"
    /\ mode = "none"
    /\ options = NoOptions
    /\ logLevel = "INFO"
    /\ environ = "env0"
    /\ config = NoConfig
    /\ batchSystem = NoneHandle
    /\ locals = NoLocals
    /\ err = "none"
    /\ runs = 0
    /\ mainLoopCalls = 0
    /\ jobWrites = 0
    /\ createdConfig = NoConfig
    /\ callConfig = NoConfig
    /\ loadFailedInCreate = FALSE
    /\ lastRoute = NoRoute

\* the process state of no process
NoProcess ==
    /\ pc' = "idle"
    /\ mode' = "none"
    /\ options' = NoOptions
    /\ config' = NoConfig
    /\ batchSystem' = NoneHandle
    /\ locals' = NoLocals
    /\ err' = "none"
    /\ callConfig' = NoConfig
    /\ lastRoute' = NoRoute
    /\ UNCHANGED <<logLevel, environ>>

\* an exception leaves the function and propagates to the top of the process
Raise(exception) ==
    /\ pc' = "failed"
    /\ err' = exception

\* an exception leaves loadTheBatchSystem
RaiseInLoad(exception) ==
    /\ Raise(exception)
    /\ loadFailedInCreate' = (loadFailedInCreate \/ mode = "create")

\* runJobTreeScript without the assertion of line 268
runJobTreeScriptAnyCommand(opts, env) ==
    /\ pc = "idle"
    /\ runs < MaxRuns
    /\ runs' = runs + 1
    /\ logLevel' = opts.logLevel
    /\ environ' = env
    /\ IF pathKind = "dir"
       THEN /\ mode' = "reload"
            /\ options' = NoOptions
            /\ pc' = "reloadJobTree"
       ELSE /\ mode' = "create"
            /\ options' = opts
            /\ pc' = "createJobTree"
    /\ err' = "none"
    /\ UNCHANGED <<disk, config, batchSystem, locals>>
    /\ UNCHANGED <<mainLoopCalls, jobWrites, createdConfig, callConfig, loadFailedInCreate, lastRoute>>

\* runJobTreeScript taking a directory without a configuration file for a
\* job tree still to be created
runJobTreeScriptLenient(opts, env) ==
    /\ pc = "idle"
    /\ runs < MaxRuns
    /\ runs' = runs + 1
    /\ logLevel' = opts.logLevel
    /\ environ' = env
    /\ IF pathKind = "dir" /\ configFile.state # "absent"
       THEN /\ mode' = "reload"
            /\ options' = NoOptions
            /\ pc' = "reloadJobTree"
            /\ err' = "none"
       ELSE /\ mode' = "create"
            /\ options' = opts
            /\ IF opts.command = None
               THEN Raise("AssertionError")
               ELSE pc' = "createJobTree" /\ err' = "none"
    /\ UNCHANGED <<disk, config, batchSystem, locals>>
    /\ UNCHANGED <<mainLoopCalls, jobWrites, createdConfig, callConfig, loadFailedInCreate, lastRoute>>

\* ------------------------------------------------------- runJobTreeScript
\* lines 263-269: a process starts with its options and environment, sets
\* the logging level and chooses reload (the path is a directory) or create
runJobTreeScript(opts, env) ==
    /\ pc = "idle"
    /\ runs < MaxRuns
    /\ runs' = runs + 1
    /\ logLevel' = opts.logLevel
    /\ environ' = env
    /\ IF pathKind = "dir"
       THEN /\ mode' = "reload"
            /\ options' = NoOptions
            /\ pc' = "reloadJobTree"
            /\ err' = "none"
       ELSE /\ mode' = "create"
            /\ options' = opts
            /\ IF opts.command = None
               THEN Raise("AssertionError")
               ELSE pc' = "createJobTree" /\ err' = "none"
    /\ UNCHANGED <<disk, config, batchSystem, locals>>
    /\ UNCHANGED <<mainLoopCalls, jobWrites, createdConfig, callConfig, loadFailedInCreate, lastRoute>>

\* reloadJobTree asserting the configuration file only
reloadJobTreeValidateConfigOnly ==
    /\ pc = "reloadJobTree"
    /\ IF configFile.state # "absent"
       THEN pc' = "reloadJobTree_parse" /\ err' = "none"
       ELSE Raise("AssertionError")
    /\ UNCHANGED <<disk, mode, options, logLevel, environ, config, batchSystem, locals, hist>>

\* ---------------------------------------------------------- reloadJobTree
\* lines 200-203: the three assertions on the artifacts
reloadJobTreeValidate ==
    /\ pc = "reloadJobTree"
    /\ IF /\ configFile.state # "absent"
          /\ environmentFile.state # "absent"
          /\ jobFileDir
       THEN pc' = "reloadJobTree_parse" /\ err' = "none"
       ELSE Raise("AssertionError")
    /\ UNCHANGED <<disk, mode, options, logLevel, environ, config, batchSystem, locals, hist>>

\* reloadJobTree resetting the try count as well
reloadJobTreeParseResetTryCount ==
    /\ pc = "reloadJobTree_parse"
    /\ IF configFile.state = "complete"
       THEN /\ config' = [configFile.attrib EXCEPT !.log_level = logLevel,
                                                   !.try_count = "1"]
            /\ pc' = "writeConfig"
            /\ err' = "none"
       ELSE /\ Raise("ParseError")
            /\ UNCHANGED config
    /\ UNCHANGED <<disk, mode, options, logLevel, environ, batchSystem, locals, hist>>

\* lines 205-206: parse the configuration file, set log_level
reloadJobTreeParse ==
    /\ pc = "reloadJobTree_parse"
    /\ IF configFile.state = "complete"
       THEN /\ config' = [configFile.attrib EXCEPT !.log_level = logLevel]
            /\ pc' = "writeConfig"
            /\ err' = "none"
       ELSE /\ Raise("ParseError")
            /\ UNCHANGED config
    /\ UNCHANGED <<disk, mode, options, logLevel, environ, batchSystem, locals, hist>>

\* ------------------------------------------------------------ writeConfig
\* line 191: open(..., 'w') creates or truncates the configuration file
writeConfigOpen ==
    /\ pc = "writeConfig"
    /\ configFile' = [state |-> "truncated"]
    /\ pc' = "writeConfig_write"
    /\ UNCHANGED <<pathKind, jobFileDir, environmentFile, rootJob>>
    /\ UNCHANGED <<mode, options, logLevel, environ, config, batchSystem, locals, err, hist>>

\* writeConfig followed by createFirstJob in either mode
writeConfigWriteThenFirstJob ==
    /\ pc = "writeConfig_write"
    /\ configFile' = [state |-> "complete", attrib |-> config]
    /\ pc' = "createFirstJob"
    /\ createdConfig' = IF mode = "create" THEN config ELSE createdConfig
    /\ UNCHANGED callConfig
    /\ UNCHANGED <<pathKind, jobFileDir, environmentFile, rootJob>>
    /\ UNCHANGED <<mode, options, logLevel, environ, config, batchSystem, locals, err>>
    /\ UNCHANGED <<runs, mainLoopCalls, jobWrites, loadFailedInCreate, lastRoute>>

\* writeConfig followed by loadEnvironment in create mode (line 271 left out)
writeConfigWriteNoFirstJob ==
    /\ pc = "writeConfig_write"
    /\ configFile' = [state |-> "complete", attrib |-> config]
    /\ IF mode = "create"
       THEN /\ pc' = "loadEnvironment"
            /\ createdConfig' = config
            /\ UNCHANGED callConfig
       ELSE /\ pc' = "loadTheBatchSystem"
            /\ callConfig' = config
            /\ UNCHANGED createdConfig
    /\ UNCHANGED <<pathKind, jobFileDir, environmentFile, rootJob>>
    /\ UNCHANGED <<mode, options, logLevel, environ, config, batchSystem, locals, err>>
    /\ UNCHANGED <<runs, mainLoopCalls, jobWrites, loadFailedInCreate, lastRoute>>

\* lines 192-195: write the element and close; createJobTree then returns
\* (line 244), reloadJobTree goes on to load the batch system (line 209)
writeConfigWrite ==
    /\ pc = "writeConfig_write"
    /\ configFile' = [state |-> "complete", attrib |-> config]
    /\ IF mode = "create"
       THEN /\ pc' = "createFirstJob"
            /\ createdConfig' = config
            /\ UNCHANGED callConfig
       ELSE /\ pc' = "loadTheBatchSystem"
            /\ callConfig' = config
            /\ UNCHANGED createdConfig
    /\ UNCHANGED <<pathKind, jobFileDir, environmentFile, rootJob>>
    /\ UNCHANGED <<mode, options, logLevel, environ, config, batchSystem, locals, err>>
    /\ UNCHANGED <<runs, mainLoopCalls, jobWrites, loadFailedInCreate, lastRoute>>

\* ----------------------------------------------------- loadTheBatchSystem
\* the return of a reload leading straight to mainLoop
loadTheBatchSystemReturnSkipEnvironment ==
    IF mode = "create" THEN "createJobTree_rescue" ELSE "mainLoop"

\* where loadTheBatchSystem returns to: line 237 of createJobTree, or, past
\* the return of reloadJobTree, loadEnvironment
loadTheBatchSystemReturn == IF mode = "create" THEN "createJobTree_rescue" ELSE "loadEnvironment"

\* lines 132-158: try the whole string as the name of a single backend
loadTheBatchSystemSingle ==
    /\ pc = "loadTheBatchSystem"
    /\ \E r \in batchSystemConstructionFn(config.batch_system, config) :
          IF r.raised
          THEN /\ RaiseInLoad("ConstructorError")
               /\ UNCHANGED <<config, batchSystem>>
          ELSE /\ config' = r.config
               /\ batchSystem' = r.batchSystem
               /\ err' = "none"
               /\ UNCHANGED loadFailedInCreate
               /\ pc' = IF r.batchSystem = NoneHandle
                        THEN "loadTheBatchSystem_hybrid"
                        ELSE loadTheBatchSystemReturn
    /\ UNCHANGED <<disk, mode, options, logLevel, environ, locals, otherHist>>

\* loadTheBatchSystem accepting any string of 3 fields or more
loadTheBatchSystemHybridAtLeast3 ==
    /\ pc = "loadTheBatchSystem_hybrid"
    /\ LET batchSystems == split(config.batch_system) IN
       IF Len(batchSystems) < 3
       THEN /\ RaiseInLoad("RuntimeError")
            /\ UNCHANGED <<config, locals>>
       ELSE IF float(batchSystems[3]) = FloatError
       THEN /\ RaiseInLoad("ValueError")
            /\ UNCHANGED <<config, locals>>
       ELSE IF Len(batchSystems) = 4 /\ int(batchSystems[4]) = ValueError
       THEN /\ RaiseInLoad("ValueError")
            /\ UNCHANGED <<config, locals>>
       ELSE LET maxJobs == IF Len(batchSystems) = 4
                           THEN int(batchSystems[4]) ELSE sys_maxint IN
            /\ locals' = [batchSystems |-> batchSystems,
                          maxMemoryForBatchSystem1 |-> float(batchSystems[3]),
                          maxJobs |-> maxJobs,
                          oldMaxJobs |-> config.max_jobs,
                          batchSystem1 |-> NoneHandle,
                          batchSystem2 |-> NoneHandle]
            /\ config' = [config EXCEPT !.max_jobs = StrInt(maxJobs)]
            /\ pc' = "loadTheBatchSystem_1"
            /\ err' = "none"
            /\ UNCHANGED loadFailedInCreate
    /\ UNCHANGED <<disk, mode, options, logLevel, environ, batchSystem, otherHist>>

\* lines 159-168: split the string, check the field count, parse the
\* threshold and the max-jobs field, put the max jobs into the configuration
loadTheBatchSystemHybrid ==
    /\ pc = "loadTheBatchSystem_hybrid"
    /\ LET batchSystems == split(config.batch_system) IN
       IF Len(batchSystems) \notin {3, 4}
       THEN /\ RaiseInLoad("RuntimeError")
            /\ UNCHANGED <<config, locals>>
       ELSE IF float(batchSystems[3]) = FloatError
       THEN /\ RaiseInLoad("ValueError")
            /\ UNCHANGED <<config, locals>>
       ELSE IF Len(batchSystems) = 4 /\ int(batchSystems[4]) = ValueError
       THEN /\ RaiseInLoad("ValueError")
            /\ UNCHANGED <<config, locals>>
       ELSE LET maxJobs == IF Len(batchSystems) = 4
                           THEN int(batchSystems[4]) ELSE sys_maxint IN
            /\ locals' = [batchSystems |-> batchSystems,
                          maxMemoryForBatchSystem1 |-> float(batchSystems[3]),
                          maxJobs |-> maxJobs,
                          oldMaxJobs |-> config.max_jobs,
                          batchSystem1 |-> NoneHandle,
                          batchSystem2 |-> NoneHandle]
            /\ config' = [config EXCEPT !.max_jobs = StrInt(maxJobs)]
            /\ pc' = "loadTheBatchSystem_1"
            /\ err' = "none"
            /\ UNCHANGED loadFailedInCreate
    /\ UNCHANGED <<disk, mode, options, logLevel, environ, batchSystem, otherHist>>

\* line 169: construct the first backend
loadTheBatchSystemConstruct1 ==
    /\ pc = "loadTheBatchSystem_1"
    /\ \E r \in batchSystemConstructionFn(<<locals.batchSystems[1]>>, config) :
          IF r.raised
          THEN /\ RaiseInLoad("ConstructorError")
               /\ UNCHANGED <<config, locals>>
          ELSE /\ config' = r.config
               /\ locals' = [locals EXCEPT !.batchSystem1 = r.batchSystem]
               /\ pc' = "loadTheBatchSystem_restore"
               /\ err' = "none"
               /\ UNCHANGED loadFailedInCreate
    /\ UNCHANGED <<disk, mode, options, logLevel, environ, batchSystem, otherHist>>

\* line 170 left out: the max jobs of the first backend stay
loadTheBatchSystemNoRestore ==
    /\ pc = "loadTheBatchSystem_restore"
    /\ pc' = "loadTheBatchSystem_2"
    /\ UNCHANGED <<disk, mode, options, logLevel, environ, config, batchSystem, locals, err, hist>>

\* line 170: put the old max jobs back
loadTheBatchSystemRestore ==
    /\ pc = "loadTheBatchSystem_restore"
    /\ config' = [config EXCEPT !.max_jobs = locals.oldMaxJobs]
    /\ pc' = "loadTheBatchSystem_2"
    /\ UNCHANGED <<disk, mode, options, logLevel, environ, batchSystem, locals, err, hist>>

\* line 171: construct the second backend
loadTheBatchSystemConstruct2 ==
    /\ pc = "loadTheBatchSystem_2"
    /\ \E r \in batchSystemConstructionFn(<<locals.batchSystems[2]>>, config) :
          IF r.raised
          THEN /\ RaiseInLoad("ConstructorError")
               /\ UNCHANGED <<config, locals>>
          ELSE /\ config' = r.config
               /\ locals' = [locals EXCEPT !.batchSystem2 = r.batchSystem]
               /\ pc' = "loadTheBatchSystem_combine"
               /\ err' = "none"
               /\ UNCHANGED loadFailedInCreate
    /\ UNCHANGED <<disk, mode, options, logLevel, environ, batchSystem, otherHist>>

\* line 174 with "and": fail only when neither was made
loadTheBatchSystemCombineEither ==
    /\ pc = "loadTheBatchSystem_combine"
    /\ IF locals.batchSystem1 = NoneHandle /\ locals.batchSystem2 = NoneHandle
       THEN /\ RaiseInLoad("RuntimeError")
            /\ UNCHANGED batchSystem
       ELSE /\ batchSystem' = CombinedBatchSystem(locals.batchSystem1, locals.batchSystem2,
                                                  locals.maxMemoryForBatchSystem1)
            /\ pc' = loadTheBatchSystemReturn
            /\ err' = "none"
            /\ UNCHANGED loadFailedInCreate
    /\ UNCHANGED <<disk, mode, options, logLevel, environ, config, locals, otherHist>>

\* lines 174-178: fail unless both were made, else combine them and return
loadTheBatchSystemCombine ==
    /\ pc = "loadTheBatchSystem_combine"
    /\ IF locals.batchSystem1 = NoneHandle \/ locals.batchSystem2 = NoneHandle
       THEN /\ RaiseInLoad("RuntimeError")
            /\ UNCHANGED batchSystem
       ELSE /\ batchSystem' = CombinedBatchSystem(locals.batchSystem1, locals.batchSystem2,
                                                  locals.maxMemoryForBatchSystem1)
            /\ pc' = loadTheBatchSystemReturn
            /\ err' = "none"
            /\ UNCHANGED loadFailedInCreate
    /\ UNCHANGED <<disk, mode, options, logLevel, environ, config, locals, otherHist>>

\* ---------------------------------------------------------- createJobTree
\* lines 215-216: make the directory of the job tree
createJobTreeMkdir ==
    /\ pc = "createJobTree"
    /\ IF pathKind = "none"
       THEN /\ pathKind' = "dir"
            /\ pc' = "createJobTree_jobs"
            /\ err' = "none"
       ELSE /\ Raise("OSError")
            /\ UNCHANGED pathKind
    /\ UNCHANGED <<jobFileDir, configFile, environmentFile, rootJob>>
    /\ UNCHANGED <<mode, options, logLevel, environ, config, batchSystem, locals, hist>>

\* line 217 followed by the capture of the environment
createJobTreeMkdirJobsAndEnvironment ==
    /\ pc = "createJobTree_jobs"
    /\ jobFileDir' = TRUE
    /\ environmentFile' = [state |-> "complete", environ |-> environ]
    /\ pc' = "createJobTree_config"
    /\ UNCHANGED <<pathKind, configFile, rootJob>>
    /\ UNCHANGED <<mode, options, logLevel, environ, config, batchSystem, locals, err, hist>>

\* line 217: make the job-records directory
createJobTreeMkdirJobs ==
    /\ pc = "createJobTree_jobs"
    /\ jobFileDir' = TRUE
    /\ pc' = "createJobTree_config"
    /\ UNCHANGED <<pathKind, configFile, environmentFile, rootJob>>
    /\ UNCHANGED <<mode, options, logLevel, environ, config, batchSystem, locals, err, hist>>

\* the configuration element of lines 218-232
newConfig(opts, level) ==
    [ log_level |-> level,
      job_tree |-> abspath(opts.jobTree),
      parasol_command |-> opts.parasolCommand,
      try_count |-> StrInt(int(opts.retryCount) + 1),
      max_job_duration |-> StrFloat(float(opts.maxJobDuration)),
      batch_system |-> opts.batchSystem,
      job_time |-> StrFloat(float(opts.jobTime)),
      max_log_file_size |-> StrInt(int(opts.maxLogFileSize)),
      default_memory |-> StrInt(int(opts.defaultMemory)),
      default_cpu |-> StrInt(int(opts.defaultCpu)),
      max_jobs |-> StrInt(int(opts.maxJobs)),
      max_threads |-> StrInt(int(opts.maxThreads)),
      stats |-> IF opts.stats THEN "" ELSE Absent,
      rescue_jobs_frequency |-> Absent ]

\* the options that int() and float() of lines 222-230 accept
convertible(opts) ==
    /\ \A s \in {opts.retryCount, opts.maxLogFileSize, opts.defaultMemory,
                 opts.defaultCpu, opts.maxJobs, opts.maxThreads} : int(s) # ValueError
    /\ \A s \in {opts.maxJobDuration, opts.jobTime} : float(s) # FloatError

\* lines 218-234: build the configuration, call loadTheBatchSystem
createJobTreeConfig ==
    /\ pc = "createJobTree_config"
    /\ IF convertible(options)
       THEN /\ config' = newConfig(options, logLevel)
            /\ callConfig' = config'
            /\ pc' = "loadTheBatchSystem"
            /\ err' = "none"
       ELSE /\ Raise("ValueError")
            /\ UNCHANGED <<config, callConfig>>
    /\ UNCHANGED <<disk, mode, options, logLevel, environ, batchSystem, locals>>
    /\ UNCHANGED <<runs, mainLoopCalls, jobWrites, createdConfig, loadFailedInCreate, lastRoute>>

\* lines 237-239 in the other order: the frequency of the handle comes last
createJobTreeRescueHandleLast ==
    /\ pc = "createJobTree_rescue"
    /\ IF options.rescueJobsFrequency # None /\ float(options.rescueJobsFrequency) = FloatError
       THEN /\ Raise("ValueError")
            /\ UNCHANGED config
       ELSE /\ config' = [config EXCEPT !.rescue_jobs_frequency =
                              StrFloat(getRescueJobFrequency(batchSystem))]
            /\ pc' = "writeConfig"
            /\ err' = "none"
    /\ UNCHANGED <<disk, mode, options, logLevel, environ, batchSystem, locals, hist>>

\* lines 237-241: the rescue frequency of the handle, or the caller's
createJobTreeRescue ==
    /\ pc = "createJobTree_rescue"
    /\ IF options.rescueJobsFrequency = None
       THEN /\ config' = [config EXCEPT !.rescue_jobs_frequency =
                              StrFloat(getRescueJobFrequency(batchSystem))]
            /\ pc' = "writeConfig"
            /\ err' = "none"
       ELSE IF float(options.rescueJobsFrequency) = FloatError
       THEN /\ Raise("ValueError")
            /\ config' = [config EXCEPT !.rescue_jobs_frequency =
                              StrFloat(getRescueJobFrequency(batchSystem))]
       ELSE /\ config' = [config EXCEPT !.rescue_jobs_frequency =
                              StrFloat(float(options.rescueJobsFrequency))]
            /\ pc' = "writeConfig"
            /\ err' = "none"
    /\ UNCHANGED <<disk, mode, options, logLevel, environ, batchSystem, locals, hist>>

\* createFirstJob taking the try count from the options
createFirstJobFromOptions ==
    /\ pc = "createFirstJob"
    /\ rootJob' = [command |-> options.command,
                   memory |-> float(config.default_memory),
                   cpu |-> float(config.default_cpu),
                   tryCount |-> int(options.retryCount) + 1,
                   jobDir |-> config.job_tree \o "/jobs"]
    /\ jobWrites' = jobWrites + 1
    /\ pc' = "loadEnvironment"
    /\ UNCHANGED <<pathKind, jobFileDir, configFile, environmentFile>>
    /\ UNCHANGED <<mode, options, logLevel, environ, config, batchSystem, locals, err>>
    /\ UNCHANGED <<runs, mainLoopCalls, createdConfig, callConfig, loadFailedInCreate, lastRoute>>

\* ---------------------------------------------------------- createFirstJob
\* lines 246-257 as called at line 271 (memory and cpu are None)
createFirstJob ==
    /\ pc = "createFirstJob"
    /\ rootJob' = [command |-> options.command,
                   memory |-> float(config.default_memory),
                   cpu |-> float(config.default_cpu),
                   tryCount |-> int(config.try_count),
                   jobDir |-> config.job_tree \o "/jobs"]
    /\ jobWrites' = jobWrites + 1
    /\ pc' = "loadEnvironment"
    /\ UNCHANGED <<pathKind, jobFileDir, configFile, environmentFile>>
    /\ UNCHANGED <<mode, options, logLevel, environ, config, batchSystem, locals, err>>
    /\ UNCHANGED <<runs, mainLoopCalls, createdConfig, callConfig, loadFailedInCreate, lastRoute>>

\* --------------------------------------------------------- loadEnvironment
\* line 184: open(..., 'w') creates or truncates the environment file
loadEnvironmentOpen ==
    /\ pc = "loadEnvironment"
    /\ environmentFile' = [state |-> "truncated"]
    /\ pc' = "loadEnvironment_dump"
    /\ UNCHANGED <<pathKind, jobFileDir, configFile, rootJob>>
    /\ UNCHANGED <<mode, options, logLevel, environ, config, batchSystem, locals, err, hist>>

\* lines 185-187: pickle os.environ into it and close
loadEnvironmentDump ==
    /\ pc = "loadEnvironment_dump"
    /\ environmentFile' = [state |-> "complete", environ |-> environ]
    /\ pc' = "mainLoop"
    /\ UNCHANGED <<pathKind, jobFileDir, configFile, rootJob>>
    /\ UNCHANGED <<mode, options, logLevel, environ, config, batchSystem, locals, err, hist>>

\* ---------------------------------------------------------------- mainLoop
\* line 273: hand the configuration and the handle to the scheduling loop
mainLoop ==
    /\ pc = "mainLoop"
    /\ mainLoopCalls' = mainLoopCalls + 1
    /\ pc' = "scheduling"
    /\ UNCHANGED <<disk, mode, options, logLevel, environ, config, batchSystem, locals, err>>
    /\ UNCHANGED <<runs, jobWrites, createdConfig, callConfig, loadFailedInCreate, lastRoute>>

\* the scheduling loop passes a submission to a hybrid handle, which
\* evaluates the predicate of line 177
issueJob(command, memory, cpu) ==
    /\ pc = "scheduling"
    /\ batchSystem.kind = "Combined"
    /\ lastRoute' = [command |-> command, memory |-> memory, cpu |-> cpu,
                     first |-> routeToFirst(batchSystem.maxMemory, command,
                                            floatOfInt(memory), cpu),
                     before |-> IF lastRoute = NoRoute THEN "none"
                                ELSE IF lastRoute.first THEN "first" ELSE "second"]
    /\ UNCHANGED <<disk, proc>>
    /\ UNCHANGED <<runs, mainLoopCalls, jobWrites, createdConfig, callConfig, loadFailedInCreate>>

\* ------------------------------------------------------- end of a process
\* the scheduling loop returns, or the exception reaches the top
exit ==
    /\ pc \in {"scheduling", "failed"}
    /\ NoProcess
    /\ UNCHANGED <<disk, runs, mainLoopCalls, jobWrites, createdConfig, loadFailedInCreate>>

\* the process is interrupted (killed, machine down) between two steps
interrupt ==
    /\ pc \notin {"idle", "scheduling", "failed"}
    /\ NoProcess
    /\ UNCHANGED <<disk, runs, mainLoopCalls, jobWrites, createdConfig, loadFailedInCreate>>

Commands == {"c1", "c2"}
Cpus == {1, 2}

Next ==
    \/ \E opts \in (IF pathKind = "dir" THEN ResumeOptions ELSE Options), env \in Environs :
          runJobTreeScript(opts, env)
    \/ reloadJobTreeValidate
    \/ reloadJobTreeParse
    \/ writeConfigOpen
    \/ writeConfigWrite
    \/ loadTheBatchSystemSingle
    \/ loadTheBatchSystemHybrid
    \/ loadTheBatchSystemConstruct1
    \/ loadTheBatchSystemRestore
    \/ loadTheBatchSystemConstruct2
    \/ loadTheBatchSystemCombine
    \/ createJobTreeMkdir
    \/ createJobTreeMkdirJobs
    \/ createJobTreeConfig
    \/ createJobTreeRescue
    \/ createFirstJob
    \/ loadEnvironmentOpen
    \/ loadEnvironmentDump
    \/ mainLoop
    \/ \E command \in Commands, memory \in 0 .. MaxMemory, cpu \in Cpus :
          issueJob(command, memory, cpu)
    \/ exit
    \/ interrupt

Spec == Init /\ [][Next]_vars

\* ================================================================ claims
\* the positions inside loadTheBatchSystem
LoadPcs ==
    {"loadTheBatchSystem", "loadTheBatchSystem_hybrid", "loadTheBatchSystem_1",
     "loadTheBatchSystem_restore", "loadTheBatchSystem_2", "loadTheBatchSystem_combine"}

\* the number of whitespace-separated fields of a string
FieldCount(s) == Cardinality({i \in DOMAIN s : s[i] # " "})

\* loadTheBatchSystem was called on a string of 3 or 4 fields and the call
\* is over (it returned, or an exception left it)
HybridCallOver ==
    /\ callConfig # NoConfig
    /\ FieldCount(callConfig.batch_system) \in {3, 4}
    /\ pc \notin LoadPcs

\* C1: after loadTheBatchSystem on a hybrid spec, returned or failed at any
\* step, max_jobs of the shared configuration is what it was before the call.
C1_MaxJobsRestored == HybridCallOver => config.max_jobs = callConfig.max_jobs

\* C2 as stated: the first backend is constructed under the 4th field, or
\* under the pre-existing max_jobs when there are 3 fields; the second
\* backend under the original max_jobs.
C2_CurrentMaxJobs ==
    /\ pc = "loadTheBatchSystem_1" =>
          int(config.max_jobs) = IF FieldCount(callConfig.batch_system) = 4
                                 THEN int(locals.batchSystems[4])
                                 ELSE int(callConfig.max_jobs)
    /\ pc = "loadTheBatchSystem_2" => config.max_jobs = callConfig.max_jobs

\* C2 amended: the first backend is constructed under the 4th field, or
\* under sys.maxint when there are 3 fields; the second backend under the
\* original max_jobs.
C2_MaxJobsOfBackends ==
    /\ pc = "loadTheBatchSystem_1" =>
          int(config.max_jobs) = IF FieldCount(callConfig.batch_system) = 4
                                 THEN int(locals.batchSystems[4])
                                 ELSE 2147483647
    /\ pc = "loadTheBatchSystem_2" => config.max_jobs = callConfig.max_jobs

C2_Witness ==
    /\ pc = "loadTheBatchSystem_2"
    /\ FieldCount(callConfig.batch_system) = 3
    /\ callConfig.max_jobs = "7"
    /\ locals.batchSystem1 # NoneHandle

\* twice the threshold that a numeral of a third field denotes
TwiceThreshold(numeral) == CASE numeral = "1" -> 2 [] numeral = "1.5" -> 3

\* C3: a hybrid handle routes a submission to the first backend exactly when
\* its memory is at most the threshold of the spec, whatever its command and
\* cpu and whatever was routed before.
C3_Routing ==
    lastRoute # NoRoute =>
        (lastRoute.first <=>
            2 * lastRoute.memory <= TwiceThreshold(split(config.batch_system)[3]))

C3_Witness ==
    /\ lastRoute # NoRoute
    /\ split(config.batch_system)[3] = "1"
    /\ lastRoute.memory = 1
    /\ lastRoute.first
    /\ lastRoute.before = "second"

\* the three artifacts that reloadJobTree asserts
Valid ==
    /\ configFile.state # "absent"
    /\ environmentFile.state # "absent"
    /\ jobFileDir

\* C4: a resolve of a directory that lacks one of the three artifacts runs
\* in reload mode, fails at the assertions and changes nothing on disk; it
\* never goes on to create or repair anything nor to the scheduling loop.
C4_ReloadRequiresCompleteness ==
    [][ /\ (pc = "idle" /\ pathKind = "dir" /\ ~Valid /\ pc' # "idle") =>
              (mode' = "reload" /\ pc' = "reloadJobTree" /\ disk' = disk)
        /\ (mode = "reload" /\ ~Valid) =>
              /\ pc \in {"reloadJobTree", "failed"}
              /\ pc' \in {"failed", "idle"}
              /\ pc' = "failed" => err' = "AssertionError"
              /\ disk' = disk
              /\ mainLoopCalls' = mainLoopCalls
              /\ jobWrites' = jobWrites ]_vars

C4_Witness ==
    /\ pc = "failed"
    /\ mode = "reload"
    /\ err = "AssertionError"
    /\ configFile.state = "complete"
    /\ environmentFile.state = "absent"
    /\ ~jobFileDir

\* a configuration with its log level masked
ButLogLevel(cfg) == [cfg EXCEPT !.log_level = "*"]

\* reloadJobTree has returned
Reloaded ==
    /\ mode = "reload"
    /\ pc \in {"loadEnvironment", "loadEnvironment_dump", "mainLoop", "scheduling"}

\* C5: a reload of a created job tree yields, in memory and on disk, the
\* configuration of the creation but for log_level, which is the level of
\* the reloading process.
C5_ReloadKeepsConfig ==
    createdConfig # NoConfig =>
        /\ Reloaded =>
              /\ ButLogLevel(config) = ButLogLevel(createdConfig)
              /\ config.log_level = logLevel
        /\ configFile.state = "complete" =>
              ButLogLevel(configFile.attrib) = ButLogLevel(createdConfig)

C5_Witness ==
    /\ createdConfig # NoConfig
    /\ Reloaded
    /\ pc = "scheduling"
    /\ createdConfig.batch_system = <<"singleMachine", " ", "acid_test", " ", "1", " ", "5">>
    /\ createdConfig.max_jobs = "7"
    /\ config.log_level # createdConfig.log_level
    /\ configFile.state = "complete"
    /\ configFile.attrib = config

\* C6: whenever a process may start or a reload reads the configuration
\* file, the file is absent or complete, never a truncated one.
C6_AtomicConfigWrite ==
    pc \in {"idle", "reloadJobTree", "reloadJobTree_parse"} =>
        configFile.state # "truncated"

\* the names of the single backends
KnownNames ==
    { <<"parasol">>, <<"single_machine">>, <<"singleMachine">>, <<"gridengine">>,
      <<"gridEngine">>, <<"torque">>, <<"Torque">>, <<"drmaa">>, <<"Drmaa">>,
      <<"drmaaTorque">>, <<"DrmaaTorque">>, <<"acid_test">>, <<"acidTest">> }

\* a string of 3 or 4 fields with a numeric threshold and an int max jobs
WellFormedHybrid(s) ==
    /\ FieldCount(s) \in {3, 4}
    /\ split(s)[3] \in {"1", "1.5", "100"}
    /\ FieldCount(s) = 4 => split(s)[4] \in {"5"}

\* loadTheBatchSystem has returned
Loaded ==
    \/ pc \in {"createJobTree_rescue", "createFirstJob", "loadEnvironment",
               "loadEnvironment_dump", "mainLoop", "scheduling"}
    \/ mode = "create" /\ pc \in {"writeConfig", "writeConfig_write"}

\* C7: loadTheBatchSystem returns, and returns a handle, only for the name
\* of a single backend or a well-formed hybrid spec.
C7_UnrecognisedFails ==
    /\ Loaded => batchSystem # NoneHandle
    /\ batchSystem # NoneHandle =>
          \/ config.batch_system \in KnownNames
          \/ WellFormedHybrid(config.batch_system)

C7_Witness ==
    /\ pc = "failed"
    /\ err = "ValueError"
    /\ callConfig # NoConfig
    /\ callConfig.batch_system = <<"singleMachine", " ", "parasol", " ", "notanumber">>
    /\ batchSystem = NoneHandle

\* C8: once loadTheBatchSystem has failed in create mode, the directory
\* holds neither configuration nor environment file, the creating process
\* has failed, and every later process runs in reload mode and fails at the
\* assertions; the scheduling loop is never reached.
C8_FailedCreateStaysInvalid ==
    loadFailedInCreate =>
        /\ pathKind = "dir"
        /\ configFile.state = "absent"
        /\ environmentFile.state = "absent"
        /\ rootJob = NoJob
        /\ mainLoopCalls = 0
        /\ pc \in {"idle", "reloadJobTree", "failed"}
        /\ mode = "create" =>
              (pc = "failed" /\ err \in {"ConstructorError", "RuntimeError", "ValueError"})
        /\ (mode = "reload" /\ pc = "failed") => err = "AssertionError"

C8_Witness ==
    /\ loadFailedInCreate
    /\ mode = "reload"
    /\ pc = "failed"
    /\ jobFileDir

\* the acid test is constructed for a spec
AcidTestIn(s) ==
    \/ s \in {<<"acid_test">>, <<"acidTest">>}
    \/ /\ FieldCount(s) \in {3, 4}
       /\ \E i \in {1, 2} : split(s)[i] \in {"acid_test", "acidTest"}

\* C9 as stated: the root job has the default memory and cpu of the
\* configuration and retryCount + 1 tries, whatever the backend.
C9_RetryCountPlusOne ==
    (mode = "create" /\ rootJob # NoJob) =>
        /\ rootJob.memory = floatOfInt(int(config.default_memory))
        /\ rootJob.cpu = floatOfInt(int(config.default_cpu))
        /\ rootJob.tryCount = int(options.retryCount) + 1

\* C9 amended: the root job has the default memory and cpu of the
\* configuration and as many tries as the try_count of the configuration:
\* 32 when the acid test was constructed, retryCount + 1 otherwise.
C9_FirstJobDefaults ==
    (mode = "create" /\ rootJob # NoJob) =>
        /\ rootJob.memory = floatOfInt(int(config.default_memory))
        /\ rootJob.cpu = floatOfInt(int(config.default_cpu))
        /\ StrInt(rootJob.tryCount) = config.try_count
        /\ rootJob.tryCount = IF AcidTestIn(options.batchSystem)
                              THEN 32 ELSE int(options.retryCount) + 1

C9_Witness ==
    /\ mode = "create"
    /\ rootJob # NoJob
    /\ options.batchSystem = <<"acidTest", " ", "singleMachine", " ", "1">>
    /\ options.retryCount = "2"
    /\ rootJob.tryCount = 32
    /\ rootJob.memory = [whole |-> 4, tenth |-> 0]

\* C10: with the acid test as the backend, the configuration that
\* loadTheBatchSystem returns and the configuration file of the creation
\* have try_count "32".
C10_AcidTestTryCount ==
    /\ (Loaded /\ config.batch_system \in {<<"acid_test">>, <<"acidTest">>}) =>
          config.try_count = "32"
    /\ (createdConfig # NoConfig /\ configFile.state = "complete"
          /\ configFile.attrib.batch_system \in {<<"acid_test">>, <<"acidTest">>}) =>
          configFile.attrib.try_count = "32"

C10_Witness ==
    /\ mode = "create"
    /\ pc = "createFirstJob"
    /\ options.retryCount = "2"
    /\ options.batchSystem = <<"acid_test">>
    /\ configFile.state = "complete"
    /\ configFile.attrib.try_count = "32"
    /\ config.try_count = "32"

\* C11: the configuration file of a creation holds the caller's rescue
\* frequency when one was given and the preferred frequency of the
\* constructed handle otherwise; a reload keeps the field, in memory and on
\* disk.
C11_RescueJobsFrequency ==
    /\ (mode = "create" /\ configFile.state = "complete") =>
          float(configFile.attrib.rescue_jobs_frequency) =
              IF options.rescueJobsFrequency # None
              THEN float(options.rescueJobsFrequency)
              ELSE getRescueJobFrequency(batchSystem)
    /\ (createdConfig # NoConfig /\ configFile.state = "complete") =>
          configFile.attrib.rescue_jobs_frequency = createdConfig.rescue_jobs_frequency
    /\ (createdConfig # NoConfig /\ Reloaded) =>
          config.rescue_jobs_frequency = createdConfig.rescue_jobs_frequency

C11_Witness ==
    /\ mode = "create"
    /\ pc = "createFirstJob"
    /\ options.rescueJobsFrequency = "3.5"
    /\ batchSystem.kind = "Combined"
    /\ configFile.state = "complete"
    /\ configFile.attrib.rescue_jobs_frequency = "3.5"

\* C12: a resolve of a path that is no directory, with no command, fails at
\* once with the disk as it was: nothing is created or written and the
\* scheduling loop is not invoked.
C12_CreateNeedsCommand ==
    [][ (mode' = "create" /\ options'.command = None) =>
            /\ pc' = "failed"
            /\ err' = "AssertionError"
            /\ disk' = disk
            /\ config' = NoConfig
            /\ mainLoopCalls' = mainLoopCalls
            /\ jobWrites' = jobWrites ]_vars

C12_Witness ==
    /\ mode = "create"
    /\ options.command = None
    /\ pc = "failed"
    /\ err = "AssertionError"
    /\ pathKind = "none"
    /\ runs = 2

\* C13: when a resolve has succeeded, in create or in reload mode, the
\* environment file is the environment of the resolving process, and it
\* stays so until the next process writes it.
C13_EnvironmentOfLastResolve ==
    [][ /\ pc' \in {"mainLoop", "scheduling"} =>
              environmentFile' = [state |-> "complete", environ |-> environ']
        /\ pc \in {"mainLoop", "scheduling", "failed", "idle"} =>
              environmentFile' = environmentFile ]_vars

C13_Witness ==
    /\ mode = "reload"
    /\ pc = "scheduling"
    /\ createdConfig = NoConfig
    /\ environ = "env1"
    /\ environmentFile = [state |-> "complete", environ |-> "env1"]

\* a backend name in lower case
Lower(name) ==
    CASE name \in {"singleMachine", "SingleMachine"} -> "singlemachine"
      [] name = "Torque" -> "torque"
      [] name = "acidTest" -> "acidtest"
      [] name = "quantumCluster" -> "quantumcluster"
      [] OTHER -> name

LowerKnownNames ==
    {"parasol", "single_machine", "singlemachine", "gridengine", "torque",
     "drmaa", "drmaatorque", "acid_test", "acidtest"}

\* loadTheBatchSystem was called on a string of one field and no whitespace
SingleNameCall == callConfig # NoConfig /\ Len(callConfig.batch_system) = 1

\* C14 as stated: every letter-case variant of a known name resolves to its
\* single backend; it is neither unrecognised nor parsed as a hybrid spec.
C14_AnyLetterCase ==
    (SingleNameCall /\ Lower(callConfig.batch_system[1]) \in LowerKnownNames) =>
        /\ pc # "loadTheBatchSystem_hybrid"
        /\ ~(pc = "failed" /\ err = "RuntimeError")

\* the handle of a backend name in its listed spellings
HandleOfName(name) ==
    CASE name = "parasol" -> [kind |-> "Parasol", workerFn |-> "default"]
      [] name \in {"single_machine", "singleMachine"} ->
            [kind |-> "SingleMachine", workerFn |-> "default"]
      [] name \in {"torque", "Torque"} -> [kind |-> "Torque", workerFn |-> "default"]
      [] name \in {"drmaa", "Drmaa"} -> [kind |-> "Drmaa", workerFn |-> "default"]
      [] name \in {"acid_test", "acidTest"} ->
            [kind |-> "SingleMachine", workerFn |-> "badWorker"]

\* C14 amended: a name in one of its listed spellings resolves to its single
\* backend; any other letter-case variant is parsed as a hybrid spec and
\* fails as unrecognised.
C14_ListedSpellings ==
    SingleNameCall =>
        IF callConfig.batch_system \in KnownNames
        THEN /\ pc # "loadTheBatchSystem_hybrid"
             /\ ~(pc = "failed" /\ err = "RuntimeError")
             /\ Loaded => batchSystem = HandleOfName(callConfig.batch_system[1])
        ELSE /\ ~Loaded
             /\ pc \in {"loadTheBatchSystem", "loadTheBatchSystem_hybrid", "failed"}
             /\ pc = "failed" => err = "RuntimeError"

C14_Witness ==
    /\ SingleNameCall
    /\ callConfig.batch_system = <<"SingleMachine">>
    /\ pc = "failed"
    /\ err = "RuntimeError"

\* the names that batchSystemConstructionFn knows, as fields of a spec
KnownFields == {name[1] : name \in KnownNames}

\* loadTheBatchSystem was called on a well-formed hybrid spec one of whose
\* two backend names is not known, and the call is over
UnknownSubBackendCallOver ==
    /\ callConfig # NoConfig
    /\ WellFormedHybrid(callConfig.batch_system)
    /\ \E i \in {1, 2} : split(callConfig.batch_system)[i] \notin KnownFields
    /\ pc \notin LoadPcs

\* C15 as stated: with an unknown name of either backend, the hybrid
\* construction fails with the unrecognised-backend error and no combined
\* handle exists.
C15_UnrecognisedSubBackend ==
    UnknownSubBackendCallOver =>
        (pc = "failed" /\ err = "RuntimeError" /\ batchSystem = NoneHandle)

\* C15 amended: with an unknown name of either backend, the hybrid
\* construction fails, with the unrecognised-backend error or with the
\* exception of the constructor of the other backend, and no combined handle
\* exists; a combined handle holds two constructed backends.
C15_BothSubBackends ==
    /\ UnknownSubBackendCallOver =>
          /\ pc = "failed"
          /\ err \in {"RuntimeError", "ConstructorError"}
          /\ batchSystem = NoneHandle
    /\ batchSystem.kind = "Combined" =>
          /\ batchSystem.batchSystem1 # NoneHandle
          /\ batchSystem.batchSystem2 # NoneHandle
          /\ \A i \in {1, 2} : split(config.batch_system)[i] \in KnownFields

C15_Witness ==
    /\ UnknownSubBackendCallOver
    /\ callConfig.batch_system = <<"singleMachine", " ", "quantumCluster", " ", "1">>
    /\ pc = "failed"
    /\ err = "RuntimeError"
    /\ locals.batchSystem1 # NoneHandle
    /\ locals.batchSystem2 = NoneHandle

\* C16: a root job record is written only by a process in create mode, with
\* the configuration file complete, and only when none was written before;
\* no other step touches it.
C16_RootJobWrittenOnce ==
    [][ /\ jobWrites' # jobWrites =>
              /\ jobWrites = 0
              /\ jobWrites' = 1
              /\ mode = "create"
              /\ configFile = [state |-> "complete", attrib |-> config]
              /\ rootJob = NoJob
              /\ rootJob' # NoJob
        /\ rootJob' # rootJob => jobWrites' # jobWrites ]_vars

C16_Witness ==
    /\ jobWrites = 1
    /\ rootJob # NoJob
    /\ mode = "reload"
    /\ pc = "scheduling"
    /\ runs = 2

\* C17: the scheduling loop is invoked only with the three artifacts on
\* disk and a constructed handle, and in create mode only with the root job
\* record written.
C17_MainLoopOnValidWorkspace ==
    pc \in {"mainLoop", "scheduling"} =>
        /\ configFile.state = "complete"
        /\ environmentFile.state = "complete"
        /\ jobFileDir
        /\ pathKind = "dir"
        /\ batchSystem # NoneHandle
        /\ pc = "scheduling" => mainLoopCalls > 0
        /\ mode = "create" => (rootJob # NoJob /\ jobWrites = 1)

C17_Witness ==
    /\ pc = "scheduling"
    /\ mode = "create"
    /\ mainLoopCalls = 1
    /\ rootJob # NoJob
    /\ batchSystem.kind = "Combined"

\* C18: the job tree comes to pass the three checks of reloadJobTree only
\* by a step of a creating process, with the configuration file complete
\* and the root job record written; the record then stays.
C18_ValidOnlyWithRootJob ==
    [][ /\ (~Valid /\ Valid') =>
              /\ mode = "create"
              /\ configFile'.state = "complete"
              /\ rootJob' # NoJob
        /\ rootJob # NoJob => rootJob' = rootJob ]_vars

C18_Witness ==
    /\ mode = "reload"
    /\ pc = "failed"
    /\ err = "AssertionError"
    /\ createdConfig # NoConfig
    /\ configFile.state = "complete"
    /\ rootJob = NoJob
    /\ environmentFile.state = "absent"

\* C19: when the configuration of a job tree created by this program is
\* handed to the scheduling loop, the configuration file holds that
\* configuration, field for field.
C19_PersistedEqualsHandedOver ==
    (createdConfig # NoConfig /\ pc \in {"mainLoop", "scheduling"}) =>
        configFile = [state |-> "complete", attrib |-> config]

C19_Witness ==
    /\ createdConfig # NoConfig
    /\ mode = "reload"
    /\ pc = "mainLoop"
    /\ config.batch_system = <<"acidTest", " ", "singleMachine", " ", "1">>
    /\ config.try_count = "32"
    /\ config.max_jobs = "7"
    /\ configFile.attrib = config

\* loadTheBatchSystem has just returned
JustLoaded ==
    \/ mode = "create" /\ pc = "createJobTree_rescue"
    \/ mode = "reload" /\ pc = "loadEnvironment"

\* C20: when loadTheBatchSystem returns, the configuration is the one of the
\* call, but for try_count, which is "32" when the acid test was constructed
\* and unchanged otherwise.
C20_LoadKeepsConfig ==
    (JustLoaded /\ callConfig # NoConfig) =>
        config = IF AcidTestIn(callConfig.batch_system)
                 THEN [callConfig EXCEPT !.try_count = "32"]
                 ELSE callConfig

C20_Witness ==
    /\ JustLoaded
    /\ mode = "create"
    /\ callConfig.batch_system = <<"singleMachine", " ", "acid_test", " ", "1", " ", "5">>
    /\ callConfig.try_count = "3"
    /\ callConfig.max_jobs = "7"
    /\ config.try_count = "32"
    /\ config.max_jobs = "7"

====
